---- MODULE Spec2Model ----
(***************************************************************************)
(* Model of the admin-panel API of src/server.js (lines 1-109): the tenant *)
(* resolver getDbName, the pool registry getPool and the two handlers of   *)
(* /api/app-config, run by a single-threaded event loop.  A handler runs   *)
(* without interruption up to its await; the query it awaits is executed   *)
(* by the database at any later moment; the handler then resumes.          *)
(*                                                                         *)
(* JavaScript strings are sequences of one-character strings.  JavaScript  *)
(* values are records [type, val] where val is the text of the value.      *)
(***************************************************************************)
EXTENDS Naturals, Sequences, FiniteSets, Bags, TLC

\* ------------------------------------------------------------------ bounds
\* Most entries of the comma-separated ALLOWED_DBS value.
MaxEnvEntries == 2
\* Requests that may be awaiting their query at the same time.
MaxInFlight == 2

\* ------------------------------------------------------- JavaScript values
Undefined == [type |-> "undefined", val |-> <<>>]
Null == [type |-> "null", val |-> <<>>]
Str(cs) == [type |-> "string", val |-> cs]
Num(cs) == [type |-> "number", val |-> cs]
False == [type |-> "boolean", val |-> <<"f", "a", "l", "s", "e">>]

\* ToBoolean of a value.
Truthy(j) ==
  CASE j.type = "undefined" -> FALSE
    [] j.type = "null" -> FALSE
    [] j.type = "string" -> j.val # <<>>
    [] j.type = "number" -> j.val # <<"0">>
    [] j.type = "boolean" -> j.val # False.val
    [] OTHER -> TRUE

\* a || b
Or(a, b) == IF Truthy(a) THEN a ELSE b

\* ----------------------------------------------------------------- strings
tenantA == <<"t", "e", "n", "a", "n", "t", "A">>
tenantB == <<"t", "e", "n", "a", "n", "t", "B">>

\* String.prototype.split(sep) for a one-character separator: the pieces
\* between the separators, always at least one piece.
RECURSIVE Split(_, _)
Split(s, sep) ==
  IF \A i \in 1..Len(s) : s[i] # sep
  THEN <<s>>
  ELSE LET i == CHOOSE k \in 1..Len(s) :
                  s[k] = sep /\ \A m \in 1..(k - 1) : s[m] # sep
       IN <<SubSeq(s, 1, i - 1)>> \o Split(SubSeq(s, i + 1, Len(s)), sep)

\* String.prototype.trim(): drops the white space at both ends.
RECURSIVE Trim(_)
Trim(s) ==
  IF s = <<>> THEN s
  ELSE IF Head(s) = " " THEN Trim(Tail(s))
  ELSE IF s[Len(s)] = " " THEN Trim(SubSeq(s, 1, Len(s) - 1))
  ELSE s

\* Array.prototype.includes
Includes(arr, x) == \E i \in 1..Len(arr) : arr[i] = x

\* s contains sub as a substring.
Contains(s, sub) ==
  \E i \in 0..(Len(s) - Len(sub)) : SubSeq(s, i + 1, i + Len(sub)) = sub

\* ---------------------------------------------------------- configuration
\* (process.env.ALLOWED_DBS || '').split(',').map(s => s.trim())
ParseAllowedDbs(env) ==
  LET parts == Split(Or(env, Str(<<>>)).val, ",")
  IN [i \in 1..Len(parts) |-> Trim(parts[i])]

\* Array.prototype.join(',')
RECURSIVE Join(_)
Join(arr) ==
  IF Len(arr) = 0 THEN <<>>
  ELSE IF Len(arr) = 1 THEN arr[1]
  ELSE arr[1] \o <<",">> \o Join(Tail(arr))

\* The values of ALLOWED_DBS the model starts from: unset, empty, a name
\* with a leading or trailing comma, or a comma-joined list of at most
\* MaxEnvEntries tenant names, padded or not.
EnvEntries == {tenantA, tenantB, <<" ">> \o tenantA \o <<" ">>}
EnvLists == UNION {[1..n -> EnvEntries] : n \in 1..MaxEnvEntries}
Envs ==
  {Undefined, Str(<<>>), Str(<<",">> \o tenantA), Str(tenantA \o <<",">>)}
    \cup {Str(Join(l)) : l \in EnvLists}

\* ------------------------------------------------------------------ inputs
\* req.header('X-DB-Name'): undefined when the header is absent.
Headers == {Undefined, Str(<<>>), Str(tenantA), Str(tenantB)}

\* req.body of a POST: {config_key, config_value, description}.
Body(k, v, d) == [config_key |-> k, config_value |-> v, description |-> d]
NoBody == Body(Undefined, Undefined, Undefined)
v1 == Str(<<"v", "1">>)
v2 == Str(<<"v", "2">>)
d1 == Str(<<"d", "1">>)
\* The bodies the store claims are about: the two upserts of key "k", falsy
\* values, a key that is no string, an empty key and no key.
Bodies ==
  {Body(Str(<<"k">>), v1, d1), Body(Str(<<"k">>), v2, Undefined),
   Body(Str(<<"k">>), Num(<<"0">>), Str(<<>>)), Body(Str(<<"k">>), False, d1),
   Body(Num(<<"7">>), v1, Undefined), Body(Str(<<>>), v1, d1),
   Body(Num(<<"0">>), v1, d1), Body(Undefined, v1, d1)}
\* The bodies of the tenancy specification: one upsert and one without key.
FewBodies == {Body(Str(<<"k">>), v1, d1), NoBody}

\* ------------------------------------------------------------------- state
VARIABLES
  allowedDbs,   \* const allowedDbs: sequence of strings
  pools,        \* const pools = new Map(): database name -> index in poolObjs
  poolObjs,     \* every Pool object constructed so far, in order
  inflight,     \* bag of handler invocations suspended at their await
  app_config,   \* rows of table app_config of every database
  called,       \* <<what the handler entered in the last step did>>, else <<>>
  sent          \* <<the response the last step wrote>>, <<>> if it wrote none

vars == <<allowedDbs, pools, poolObjs, inflight, app_config, called, sent>>

\* ------------------------------------------------------------- getDbName
\* Variant of NotAllowedMsg: the message does not name the tenant.
NotAllowedMsgNoName(dbName) ==
  <<"D", "B", " ", "n", "o", "t", " ", "a", "l", "l", "o", "w", "e", "d">>

NotAllowedMsg(dbName) ==
  <<"D", "B", " ">> \o dbName \o
  <<" ", "n", "o", "t", " ", "a", "l", "l", "o", "w", "e", "d">>

\* Variant of GetDbName: the name is not checked against the allow-list.
GetDbNameNoCheck(req) ==
  [threw |-> FALSE, dbName |-> Str(Or(req.header, Str(allowedDbs[1])).val),
   message |-> <<>>]

\* Variant of GetDbName: only the first allow-list entry is accepted.
GetDbNameFirstOnly(req) ==
  LET dbName == Or(req.header, Str(allowedDbs[1])).val
  IN IF dbName # allowedDbs[1]
     THEN [threw |-> TRUE, dbName |-> Undefined, message |-> NotAllowedMsg(dbName)]
     ELSE [threw |-> FALSE, dbName |-> Str(dbName), message |-> <<>>]

\* What getDbName(req) does: the name it returns, or the Error it throws.
GetDbName(req) ==
  LET dbName == Or(req.header, Str(allowedDbs[1])).val
  IN IF ~Includes(allowedDbs, dbName)
     THEN [threw |-> TRUE, dbName |-> Undefined, message |-> NotAllowedMsg(dbName)]
     ELSE [threw |-> FALSE, dbName |-> Str(dbName), message |-> <<>>]

\* --------------------------------------------------------------- getPool
\* Variant of GetPool: a Pool is constructed on every call.
GetPoolAlwaysNew(dbName) ==
  [pools |-> (dbName :> Len(poolObjs) + 1) @@ pools,
   poolObjs |-> Append(poolObjs, [database |-> dbName]),
   pool |-> Len(poolObjs) + 1]

\* Variant of GetPool: a new entry evicts the entries of the other tenants.
GetPoolEvicting(dbName) ==
  IF dbName \notin DOMAIN pools
  THEN [pools |-> (dbName :> Len(poolObjs) + 1),
        poolObjs |-> Append(poolObjs, [database |-> dbName]),
        pool |-> Len(poolObjs) + 1]
  ELSE [pools |-> pools, poolObjs |-> poolObjs, pool |-> pools[dbName]]

\* What getPool(dbName) does to the registry, and the index of the Pool it
\* returns.  It runs to completion: the event loop runs nothing between
\* pools.has and pools.set.
GetPool(dbName) ==
  IF dbName \notin DOMAIN pools
  THEN [pools |-> pools @@ (dbName :> Len(poolObjs) + 1),
        poolObjs |-> Append(poolObjs, [database |-> dbName]),
        pool |-> Len(poolObjs) + 1]
  ELSE [pools |-> pools, poolObjs |-> poolObjs, pool |-> pools[dbName]]

\* ------------------------------------------------------------- responses
\* res.status(400).json({ error: message })
ErrorRes(message) ==
  [status |-> 400, kind |-> "error", error |-> message, rows |-> <<>>]

\* res.json(rows) (kind "rows") and res.json(rows[0]) (kind "row"): status 200.
RowsRes(kind, rows) ==
  [status |-> 200, kind |-> kind, error |-> <<>>, rows |-> rows]

ConfigKeyRequired ==
  <<"c", "o", "n", "f", "i", "g", "_", "k", "e", "y", " ",
    "r", "e", "q", "u", "i", "r", "e", "d">>

\* A handler invocation suspended at `await pool.query(...)`: the handler,
\* the body, tenant and Pool it holds, the parameters of its query, and the
\* state of the promise it awaits.
Pending(req, dbName, pool, params) ==
  [method |-> req.method, body |-> req.body, dbName |-> dbName, pool |-> pool,
   params |-> params, state |-> "pending", rows |-> <<>>, err |-> <<>>]

\* What a handler did before its await or its early response: the request,
\* the tenant getDbName returned (undefined if it threw), the Pool getPool
\* returned (0 if it was not called) and whether a query was issued.
Called(req, dbName, pool, issued) ==
  [req |-> req, dbName |-> dbName, pool |-> pool, issued |-> issued]

InFlight == BagToSet(inflight)

\* ---------------------------------------------------------- the database
\* How node-postgres sends the parameter $1 to the text column config_key:
\* a string as it is, a number as its decimal text.
KeyText(j) == j.val

\* The query parameters of the upsert: [config_key, config_value || null,
\* description || null].
UpsertParams(body) ==
  [config_key |-> body.config_key,
   config_value |-> Or(body.config_value, Null),
   description |-> Or(body.description, Null)]

NoParams == [config_key |-> Undefined, config_value |-> Undefined,
             description |-> Undefined]

\* A row as a query returns it: the columns without the database it is in.
\* The column updated_at, which the database sets from its own clock now()
\* and no handler reads, is left out of the rows.
Columns(r) ==
  [config_key |-> r.config_key, config_value |-> r.config_value,
   description |-> r.description]

RowsOf(db) == {r \in app_config : r.db = db}

\* Collation of the characters that occur in keys.
Collation == <<"0", "7", "k">>
Rank(ch) == CHOOSE i \in 1..Len(Collation) : Collation[i] = ch

RECURSIVE TextLess(_, _)
TextLess(a, b) ==
  IF b = <<>> THEN FALSE
  ELSE IF a = <<>> THEN TRUE
  ELSE IF Head(a) # Head(b) THEN Rank(Head(a)) < Rank(Head(b))
  ELSE TextLess(Tail(a), Tail(b))

\* SELECT ... FROM app_config ORDER BY config_key
RECURSIVE OrderByKey(_)
OrderByKey(rows) ==
  IF rows = {} THEN <<>>
  ELSE LET first == CHOOSE r \in rows :
                      \A q \in rows : ~TextLess(q.config_key, r.config_key)
       IN <<Columns(first)>> \o OrderByKey(rows \ {first})

\* Variant of Upsert: a plain INSERT, without the ON CONFLICT clause.
UpsertInsertOnly(db, params) ==
  app_config \cup {[db |-> db, config_key |-> KeyText(params.config_key),
                    config_value |-> params.config_value,
                    description |-> params.description]}

\* INSERT ... VALUES ($1, $2, $3, now()) ON CONFLICT (config_key) DO UPDATE
\* SET config_value, description, updated_at: the table afterwards.
Upsert(db, params) ==
  LET new == [db |-> db, config_key |-> KeyText(params.config_key),
              config_value |-> params.config_value,
              description |-> params.description]
      conflict(r) == r.db = db /\ r.config_key = new.config_key
  IN IF \E r \in app_config : conflict(r)
     THEN {IF conflict(r) THEN new ELSE r : r \in app_config}
     ELSE app_config \cup {new}

\* RETURNING *: the rows the statement wrote.
Returning(db, params, table) ==
  OrderByKey({r \in table : r.db = db /\ r.config_key = KeyText(params.config_key)})

StoreErrMsg == <<"E", "C", "O", "N", "N", "R", "E", "F", "U", "S", "E", "D">>

\* ------------------------------------------------------------------ actions
Init ==
  /\ \E env \in Envs : allowedDbs = ParseAllowedDbs(env)
  /\ pools = <<>>
  /\ poolObjs = <<>>
  /\ inflight = EmptyBag
  /\ app_config = {}
  /\ called = <<>>
  /\ sent = <<>>

\* GET /api/app-config up to its await.
GetAppConfig(header) ==
  LET req == [method |-> "GET", header |-> header, body |-> NoBody]
      name == GetDbName(req)
      got == GetPool(name.dbName.val)
  IN IF name.threw
     THEN /\ called' = <<Called(req, Undefined, 0, FALSE)>>
          /\ sent' = <<ErrorRes(name.message)>>
          /\ UNCHANGED <<allowedDbs, pools, poolObjs, inflight, app_config>>
     ELSE /\ BagCardinality(inflight) < MaxInFlight
          /\ pools' = got.pools
          /\ poolObjs' = got.poolObjs
          /\ inflight' = inflight (+)
                SetToBag({Pending(req, name.dbName, got.pool, NoParams)})
          /\ called' = <<Called(req, name.dbName, got.pool, TRUE)>>
          /\ sent' = <<>>
          /\ UNCHANGED <<allowedDbs, app_config>>

\* POST /api/app-config up to its await.
PostAppConfig(header, body) ==
  LET req == [method |-> "POST", header |-> header, body |-> body]
      name == GetDbName(req)
      got == GetPool(name.dbName.val)
  IN IF name.threw
     THEN /\ called' = <<Called(req, Undefined, 0, FALSE)>>
          /\ sent' = <<ErrorRes(name.message)>>
          /\ UNCHANGED <<allowedDbs, pools, poolObjs, inflight, app_config>>
     ELSE IF ~Truthy(body.config_key)
     THEN /\ pools' = got.pools
          /\ poolObjs' = got.poolObjs
          /\ called' = <<Called(req, name.dbName, got.pool, FALSE)>>
          /\ sent' = <<ErrorRes(ConfigKeyRequired)>>
          /\ UNCHANGED <<allowedDbs, inflight, app_config>>
     ELSE /\ BagCardinality(inflight) < MaxInFlight
          /\ pools' = got.pools
          /\ poolObjs' = got.poolObjs
          /\ inflight' = inflight (+)
                SetToBag({Pending(req, name.dbName, got.pool, UpsertParams(body))})
          /\ called' = <<Called(req, name.dbName, got.pool, TRUE)>>
          /\ sent' = <<>>
          /\ UNCHANGED <<allowedDbs, app_config>>

Settle(c, d) == (inflight (-) SetToBag({c})) (+) SetToBag({d})

\* The database runs the SELECT of a suspended GET.
DbSelect(c) ==
  /\ c.state = "pending" /\ c.method = "GET"
  /\ inflight' = Settle(c, [c EXCEPT !.state = "fulfilled",
                              !.rows = OrderByKey(RowsOf(poolObjs[c.pool].database))])
  /\ called' = <<>>
  /\ sent' = <<>>
  /\ UNCHANGED <<allowedDbs, pools, poolObjs, app_config>>

\* The database runs the upsert of a suspended POST.
DbUpsert(c) ==
  /\ c.state = "pending" /\ c.method = "POST"
  /\ LET db == poolObjs[c.pool].database
         table == Upsert(db, c.params)
     IN /\ app_config' = table
        /\ inflight' = Settle(c, [c EXCEPT !.state = "fulfilled",
                                    !.rows = Returning(db, c.params, table)])
  /\ called' = <<>>
  /\ sent' = <<>>
  /\ UNCHANGED <<allowedDbs, pools, poolObjs>>

\* The query of a suspended handler fails: pool.query rejects.
DbFail(c) ==
  /\ c.state = "pending"
  /\ inflight' = Settle(c, [c EXCEPT !.state = "rejected", !.err = StoreErrMsg])
  /\ called' = <<>>
  /\ sent' = <<>>
  /\ UNCHANGED <<allowedDbs, pools, poolObjs, app_config>>

\* GET /api/app-config after its await: res.json(rows), or the catch block.
GetResume(c) ==
  /\ c.state # "pending" /\ c.method = "GET"
  /\ inflight' = inflight (-) SetToBag({c})
  /\ sent' = IF c.state = "rejected"
                THEN <<ErrorRes(c.err)>>
                ELSE <<RowsRes("rows", c.rows)>>
  /\ called' = <<>>
  /\ UNCHANGED <<allowedDbs, pools, poolObjs, app_config>>

\* POST /api/app-config after its await: res.json(rows[0]), or the catch
\* block.
PostResume(c) ==
  /\ c.state # "pending" /\ c.method = "POST"
  /\ inflight' = inflight (-) SetToBag({c})
  /\ sent' = IF c.state = "rejected"
                THEN <<ErrorRes(c.err)>>
                ELSE <<RowsRes("row", SubSeq(c.rows, 1, 1))>>
  /\ called' = <<>>
  /\ UNCHANGED <<allowedDbs, pools, poolObjs, app_config>>

Next ==
  \/ \E h \in Headers : GetAppConfig(h)
  \/ \E h \in Headers : \E b \in FewBodies : PostAppConfig(h, b)
  \/ \E c \in InFlight : DbSelect(c)
  \/ \E c \in InFlight : DbUpsert(c)
  \/ \E c \in InFlight : DbFail(c)
  \/ \E c \in InFlight : GetResume(c)
  \/ \E c \in InFlight : PostResume(c)

Spec == Init /\ [][Next]_vars

\* The store on its own: one tenant, requests without header, every body.
InitStore ==
  /\ allowedDbs = ParseAllowedDbs(Str(tenantA))
  /\ pools = <<>>
  /\ poolObjs = <<>>
  /\ inflight = EmptyBag
  /\ app_config = {}
  /\ called = <<>>
  /\ sent = <<>>

NextStore ==
  \/ GetAppConfig(Undefined)
  \/ \E b \in Bodies : PostAppConfig(Undefined, b)
  \/ \E c \in InFlight : DbSelect(c)
  \/ \E c \in InFlight : DbUpsert(c)
  \/ \E c \in InFlight : DbFail(c)
  \/ \E c \in InFlight : GetResume(c)
  \/ \E c \in InFlight : PostResume(c)

SpecStore == InitStore /\ [][NextStore]_vars

\* ------------------------------------------------------------ properties
Allowed(name) == \E i \in DOMAIN allowedDbs : allowedDbs[i] = name
IsClientError(res) == res.status \in 400..499 /\ res.kind = "error"

\* C1: a request with an explicit X-DB-Name value is rejected by getDbName
\* (it throws, no tenant, a 400 answer, no query) when the value is not in
\* the allow-list, and resolved to exactly that value when it is; this holds
\* in every reachable state, whatever requests came before.
C1_ExplicitTenant ==
  called # <<>> /\ Truthy(called[1].req.header) =>
    LET e == called[1]
        h == e.req.header
    IN IF Allowed(h.val)
       THEN /\ e.dbName = h
            /\ e.pool # 0
            /\ sent # <<>> => sent[1].error # NotAllowedMsg(h.val)
       ELSE /\ e.dbName = Undefined
            /\ ~e.issued
            /\ e.pool = 0
            /\ sent # <<>> /\ IsClientError(sent[1])

\* C1 witness: an allow-listed explicit tenant is resolved after a Pool of
\* another tenant exists.
C1_Witness ==
  /\ called # <<>>
  /\ called[1].req.header = Str(tenantB)
  /\ called[1].dbName = Str(tenantB)
  /\ tenantA \in DOMAIN pools

\* C2: with ALLOWED_DBS unset or empty, a request without X-DB-Name header,
\* or with an empty one, fails: no tenant is returned, the answer is a client
\* error and no query is issued.
C2_NoDefaultFails ==
  /\ allowedDbs \in {ParseAllowedDbs(Undefined), ParseAllowedDbs(Str(<<>>))}
  /\ called # <<>>
  /\ ~Truthy(called[1].req.header)
  => /\ called[1].dbName = Undefined
     /\ ~called[1].issued
     /\ sent # <<>> /\ IsClientError(sent[1])

\* C3: no two Pool objects are ever constructed for one tenant, and every
\* suspended request runs its query on the one Pool the registry holds for
\* its tenant.
C3_OnePoolPerTenant ==
  /\ \A i, j \in 1..Len(poolObjs) :
       poolObjs[i].database = poolObjs[j].database => i = j
  /\ \A c \in InFlight :
       /\ c.dbName.val \in DOMAIN pools
       /\ c.pool = pools[c.dbName.val]
       /\ poolObjs[c.pool].database = c.dbName.val

\* C3 witness: as many requests as may be in flight are suspended on the
\* same tenant, which had no Pool before the first of them.
C3_Witness ==
  /\ BagCardinality(inflight) = MaxInFlight
  /\ MaxInFlight >= 2
  /\ \A c \in InFlight : c.dbName = Str(tenantA) /\ c.state = "pending"
  /\ Len(poolObjs) = 1

DistinctKeys(rows) ==
  \A i, j \in 1..Len(rows) : rows[i].config_key = rows[j].config_key => i = j

\* C4: app_config never holds two records with one config_key in one
\* database, no SELECT result and no response lists a key twice, and an
\* upsert of a key with value "v1" or "v2" leaves exactly one record for the
\* key, holding that value.
C4_UniqueKeys ==
  /\ [](/\ \A r, q \in app_config :
             r.db = q.db /\ r.config_key = q.config_key => r = q
        /\ \A c \in InFlight : DistinctKeys(c.rows)
        /\ sent # <<>> => DistinctKeys(sent[1].rows))
  /\ [][\A c \in InFlight : DbUpsert(c) =>
          LET db == poolObjs[c.pool].database
              written == {r \in app_config' :
                            r.db = db /\ r.config_key = KeyText(c.body.config_key)}
          IN /\ Cardinality(written) = 1
             /\ c.body.config_value \in {v1, v2} =>
                  \A r \in written : r.config_value = c.body.config_value]_vars

\* C4 witness: key "k" was upserted with "v1" and then with "v2"; both
\* statements have run and the table holds "v2".
C4_Witness ==
  /\ \E c \in InFlight :
       c.state = "fulfilled" /\ c.method = "POST" /\ c.body.config_value = v1
         /\ KeyText(c.body.config_key) = <<"k">>
  /\ \E c \in InFlight :
       c.state = "fulfilled" /\ c.method = "POST" /\ c.body.config_value = v2
         /\ KeyText(c.body.config_key) = <<"k">>
  /\ \E r \in app_config : r.config_key = <<"k">> /\ r.config_value = v2

ValidKey(k) == k.type = "string" /\ k.val # <<>>

\* C5: a POST whose config_key is empty, absent or no string is answered
\* with a client error and issues no statement.
C5_KeyValidated ==
  /\ called # <<>> /\ called[1].req.method = "POST"
       /\ ~ValidKey(called[1].req.body.config_key)
     => /\ ~called[1].issued
        /\ sent # <<>> /\ IsClientError(sent[1])
  /\ \A c \in InFlight : c.method = "POST" => ValidKey(c.body.config_key)

\* The value a body supplies for a column: null when the field is absent.
Supplied(j) == IF j = Undefined THEN Null ELSE j

\* C6: an upsert that succeeded wrote one record, which holds exactly the
\* supplied value and description and is the record returned.
C6_StoresSupplied ==
  \A c \in InFlight :
    c.method = "POST" /\ c.state = "fulfilled" =>
      /\ Len(c.rows) = 1
      /\ c.rows[1].config_value = Supplied(c.body.config_value)
      /\ c.rows[1].description = Supplied(c.body.description)

\* C7: with the allow-list ["tenantA"], a request without header is resolved
\* to tenantA and given tenantA's Pool; a request with header tenantB is
\* answered 4xx with {error: message}, the message contains "tenantB", and
\* no query is issued.
C7_DefaultAndReject ==
  allowedDbs = <<tenantA>> /\ called # <<>> =>
    LET e == called[1]
    IN /\ e.req.header = Undefined =>
            /\ e.dbName = Str(tenantA)
            /\ e.pool \in 1..Len(poolObjs)
            /\ poolObjs[e.pool].database = tenantA
            /\ e.req.method = "GET" => e.issued
       /\ e.req.header = Str(tenantB) =>
            /\ sent # <<>> /\ IsClientError(sent[1])
            /\ Contains(sent[1].error, tenantB)
            /\ ~e.issued
            /\ e.pool = 0

\* C7 witness: under ["tenantA"] a request for tenantB has been rejected
\* while tenantA is being served.
C7_Witness ==
  /\ allowedDbs = <<tenantA>>
  /\ called # <<>> /\ called[1].req.header = Str(tenantB)
  /\ sent # <<>>
  /\ \E c \in InFlight : c.dbName = Str(tenantA)

\* C9: the registry only grows: an entry is never removed or replaced, and
\* a getPool call for a tenant that has an entry returns that entry's Pool.
C9_NeverEvicts ==
  [][/\ \A d \in DOMAIN pools : d \in DOMAIN pools' /\ pools'[d] = pools[d]
     /\ \A i \in 1..Len(poolObjs) :
          i <= Len(poolObjs') /\ poolObjs'[i] = poolObjs[i]
     /\ called' # <<>> /\ called'[1].pool # 0
          /\ called'[1].dbName.val \in DOMAIN pools
        => called'[1].pool = pools[called'[1].dbName.val]]_vars

\* C9 witness: a request is handed the Pool created first, after a second
\* Pool was created and a query on the first Pool failed.
C9_Witness ==
  /\ called # <<>> /\ called[1].issued /\ called[1].pool = 1
  /\ Len(poolObjs) >= 2
  /\ \E c \in InFlight : c.pool = 1 /\ c.state = "rejected"

\* C10: every key of the registry, the database of every Pool and the tenant
\* of every suspended request is in the allow-list, and a request that
\* getDbName rejects changes neither the registry nor the Pools, issues no
\* query and leaves the tables alone.
C10_OnlyAllowedTenants ==
  /\ [](/\ \A d \in DOMAIN pools : Allowed(d)
        /\ \A i \in 1..Len(poolObjs) : Allowed(poolObjs[i].database)
        /\ \A c \in InFlight : Allowed(c.dbName.val))
  /\ [][called' # <<>> /\ called'[1].dbName = Undefined =>
          /\ pools' = pools /\ poolObjs' = poolObjs
          /\ inflight' = inflight /\ app_config' = app_config
          /\ ~called'[1].issued]_vars

\* C10 witness: a request for a tenant outside the allow-list has been
\* rejected while the registry holds a Pool.
C10_Witness ==
  /\ called # <<>> /\ called[1].dbName = Undefined
  /\ Truthy(called[1].req.header) /\ ~Allowed(called[1].req.header.val)
  /\ DOMAIN pools # {}

====
